---- MODULE Spec2Model ----
(***************************************************************************)
(* Model of pyphasefield's Simulation class (pyphasefield/simulation.py):  *)
(* the step loop of simulate, lazy initialization, checkpoint save/load    *)
(* and the boundary-condition application on 1-, 2- and 3-dimensional      *)
(* fields.                                                                 *)
(*                                                                         *)
(* Arrays are records [shape, data]: shape is the tuple of axis lengths    *)
(* and data maps every 0-based index tuple to an integer cell value.       *)
(* numpy index expressions are tuples of entries None (numpy.newaxis) or   *)
(* an integer; they are evaluated as numpy evaluates them.                 *)
(*                                                                         *)
(* Reading of the source.  Some statements name something that does not    *)
(* exist under that name: init_boundary_conditions and                     *)
(* init_temperature_field are declared without self, initialize_simulation *)
(* reads framework, init_temperature_field reads self.dTdx and dTdt, and   *)
(* update_temperature_field assigns to the call temperature.get_cells().   *)
(* They are read as the method or attribute of self they name              *)
(* (self._framework, self._dTdx, self._dTdt, temperature.data); likewise   *)
(* self._t_file_end and self.t_file_index of init_temperature_field are    *)
(* read as self._t_file_bounds[1] and self._t_file_index.  Two attributes  *)
(* that both exist are kept apart: simulate counts in                      *)
(* self.time_step_counter, save_simulation and load_simulation use         *)
(* self._time_step_counter.                                                *)
(*                                                                         *)
(* An exception is fatal: it ends the run (pc = "error").  Cell values,    *)
(* times and temperatures are exact integers (the tabulated temperatures   *)
(* are chosen so that the interpolation divides exactly); floating-point   *)
(* rounding is not modelled.                                               *)
(*                                                                         *)
(* Specifications.  Spec: the CPU_SERIAL framework with the temperature    *)
(* modes NONE, ISOTHERMAL, LINEAR_GRADIENT and an unknown mode.  SpecBC:   *)
(* the boundary-condition application alone.  SpecTabulated: the           *)
(* temperature mode XDMF_FILE.  SpecGPU: the GPU_SERIAL framework, whose   *)
(* backend module ppf_gpu_utils is modelled as a device copy of the        *)
(* fields.  SpecFrame: simulate alone in 1, 2 and 3 dimensions.  SpecLoad: *)
(* checkpoints of several file names.                                      *)
(***************************************************************************)
EXTENDS Integers, Sequences, FiniteSets, TLC

VARIABLES
    fields,                      \* self.fields: sequence of [name, data]
    dimensions,                  \* self.dimensions
    dx,                          \* self.dx
    dt,                          \* self.dt
    time_step_counter,           \* self.time_step_counter
    _time_step_counter,          \* self._time_step_counter (Unset until assigned)
    temperature,                 \* self.temperature: [isNone, data]
    _temperature_type,           \* self._temperature_type
    _initial_T,                  \* self._initial_T
    _dTdxyz,                     \* <<self._dTdx, self._dTdy, self._dTdz>>
    _dTdt,                       \* self._dTdt
    _temperature_path,           \* self._temperature_path
    _t_file_index,               \* self._t_file_index
    _t_file_bounds,              \* self._t_file_bounds
    _t_file_arrays,              \* self._t_file_arrays
    _requires_initialization,    \* self._requires_initialization
    _save_path,                  \* self._save_path
    _autosave_flag,              \* self._autosave_flag
    _autosave_rate,              \* self._autosave_rate
    _boundary_conditions_type,   \* self._boundary_conditions_type
    _boundary_conditions_array,  \* self._boundary_conditions_array
    _framework,                  \* self._framework
    _uses_gpu,                   \* self._uses_gpu
    _fields_gpu_device,          \* self._fields_gpu_device
    user_data,                   \* self.user_data
    xdmf,                        \* the time series files: path -> snapshots [t, T]
    files,                       \* the files of the save directory: name -> contents
    pc,                          \* position of the running call
    call,                        \* the running simulate call: [n, reset, i, c]
    hist,                        \* observations of the simulate, save and load calls
    bcobs                        \* observations of direct apply_boundary_conditions calls

\* what the constructor sets and no method changes
params == << dimensions, dx, dt, _temperature_type, _initial_T, _dTdxyz, _dTdt,
            _temperature_path, _autosave_flag, _autosave_rate, _framework,
            user_data, xdmf >>

\* the bracket of the tabulated temperature file
t_file == << _t_file_index, _t_file_bounds, _t_file_arrays >>

vars == << fields, time_step_counter, _time_step_counter, temperature,
           _requires_initialization, _save_path, _boundary_conditions_type,
           _boundary_conditions_array, _uses_gpu, files, pc, call, hist, bcobs,
           t_file, _fields_gpu_device, params >>

----------------------------------------------------------------------------
(* Bounds of the model *)

\* largest number of cells per axis of the simulated region (self.dimensions)
MaxDim == 3
\* largest number_of_timesteps of one simulate call
MaxSteps == 2
\* cap on the time-step counter (simulate is not called beyond it)
MaxCounter == 3

\* number of fields the subclass adds (init_fields is left to the subclass)
NumFields == 2
\* largest number of load_simulation calls of one run
MaxLoads == 2
\* largest number of simulate calls of one run
MaxCalls == 2

----------------------------------------------------------------------------
(* numpy arrays and index expressions *)

\* an attribute that was never assigned (reading it is an AttributeError)
Unset == -1

None == [t |-> "None", k |-> 0]
Ix(k) == [t |-> "int", k |-> k]

Rank(a) == Len(a.shape)

Indices(shape) ==
    { idx \in [1..Len(shape) -> 0..MaxDim + 2] :
        \A p \in 1..Len(shape) : idx[p] < shape[p] }

\* the array of the given shape with the cell values of f
MkArray(shape, f) == [shape |-> shape, data |-> [idx \in Indices(shape) |-> f[idx]]]

\* python's negative indices count from the end of the axis
Norm(k, n) == IF k < 0 THEN n + k ELSE k

\* The array axis (1-based) the integer of an index expression selects: every
\* full slice before it consumes one axis of the array, numpy.newaxis consumes
\* none (it only adds an axis of length 1 to the result).
AxisOf(sl) == Cardinality({ p \in 1..Len(sl) : sl[p].t = "slice" }) + 1
IntOf(sl) == sl[Len(sl)].k

\* the cell of a[sl] that lines up with cell idx of a same-shaped target
GetItem(a, sl, idx) ==
    a.data[[idx EXCEPT ![AxisOf(sl)] = Norm(IntOf(sl), a.shape[AxisOf(sl)])]]

\* a[sl] = rhs: the cells sl selects receive rhs, all others are kept
SetItem(a, sl, rhs) ==
    [a EXCEPT !.data =
        [idx \in DOMAIN a.data |->
            IF idx[AxisOf(sl)] = Norm(IntOf(sl), a.shape[AxisOf(sl)])
            THEN rhs[idx] ELSE a.data[idx]]]

\* a[dst] = a[src]
CopyItem(a, dst, src) ==
    SetItem(a, dst, [idx \in DOMAIN a.data |-> GetItem(a, src, idx)])

----------------------------------------------------------------------------
(* apply_boundary_conditions *)

\* periodic index expressions whose low destination is index 1, not 0
periodic_slices_shifted ==
    << << <<Ix(1)>>, <<None, Ix(1)>>, <<None, None, Ix(1)>> >>,
       << <<Ix(-2)>>, <<None, Ix(-2)>>, <<None, None, Ix(-2)>> >> >>

\* index expressions of apply_boundary_conditions, [destination/source][axis]
neumann_slices_1 ==
    << << <<Ix(0)>>, <<None, Ix(0)>>, <<None, None, Ix(0)>> >>,
       << <<Ix(1)>>, <<None, Ix(1)>>, <<None, None, Ix(1)>> >> >>
neumann_slices_2 ==
    << << <<Ix(-1)>>, <<None, Ix(-1)>>, <<None, None, Ix(-1)>> >>,
       << <<Ix(-2)>>, <<None, Ix(-2)>>, <<None, None, Ix(-2)>> >> >>
periodic_slices_1 ==
    << << <<Ix(0)>>, <<None, Ix(0)>>, <<None, None, Ix(0)>> >>,
       << <<Ix(-2)>>, <<None, Ix(-2)>>, <<None, None, Ix(-2)>> >> >>
periodic_slices_2 ==
    << << <<Ix(-1)>>, <<None, Ix(-1)>>, <<None, None, Ix(-1)>> >>,
       << <<Ix(1)>>, <<None, Ix(1)>>, <<None, None, Ix(1)>> >> >>
dirchlet_slices_1 == << <<Ix(0)>>, <<None, Ix(0)>>, <<None, None, Ix(0)>> >>
dirchlet_slices_2 == << <<Ix(-1)>>, <<None, Ix(-1)>>, <<None, None, Ix(-1)>> >>

\* the boundary condition spec: one token, a list of tokens (one per axis), or None
BCToken(tok) == [kind |-> "str", tok |-> tok, toks |-> <<>>]
BCList(toks) == [kind |-> "list", tok |-> "", toks |-> toks]
BCNone == [kind |-> "None", tok |-> "", toks |-> <<>>]

\* The state apply_boundary_conditions works on:
\*   s.fields, s.temperature, s.bca (the boundary-value array), s.dx, and
\*   s.raised (whether the call ended in an exception).

\* temperature.data[dst] = temperature.data[src], when there is a temperature
TemperatureEdge(T, dst, src) ==
    IF T.isNone THEN T ELSE [T EXCEPT !.data = CopyItem(T.data, dst, src)]

\* body of the loop over the axes, PERIODIC (i is the 0-based axis of the loop)
PeriodicAxis(s, i) ==
    [s EXCEPT
        !.temperature = TemperatureEdge(s.temperature, periodic_slices_1[1][i + 1],
                                        periodic_slices_1[2][i + 1]),
        !.fields = [j \in 1..Len(s.fields) |->
            [s.fields[j] EXCEPT !.data =
                CopyItem(CopyItem(s.fields[j].data, periodic_slices_1[1][i + 1],
                                  periodic_slices_1[2][i + 1]),
                         periodic_slices_2[1][i + 1], periodic_slices_2[2][i + 1])]]]

\* the low edge a[dst] = a[src] - dx*b[dst]
NeumannLow(a, b, h, dst, src) ==
    SetItem(a, dst, [idx \in DOMAIN a.data |->
                        GetItem(a, src, idx) - h * GetItem(b, dst, idx)])

\* the high edge a[dst] = a[src] + dx*b[dst]
NeumannHigh(a, b, h, dst, src) ==
    SetItem(a, dst, [idx \in DOMAIN a.data |->
                        GetItem(a, src, idx) + h * GetItem(b, dst, idx)])

\* body of the loop over the axes, NEUMANN
NeumannAxis(s, i) ==
    [s EXCEPT
        !.temperature = TemperatureEdge(s.temperature, neumann_slices_1[1][i + 1],
                                        neumann_slices_1[2][i + 1]),
        !.fields = [j \in 1..Len(s.fields) |->
            [s.fields[j] EXCEPT !.data =
                NeumannHigh(NeumannLow(s.fields[j].data, s.bca[j], s.dx,
                                       neumann_slices_1[1][i + 1],
                                       neumann_slices_1[2][i + 1]),
                            s.bca[j], s.dx,
                            neumann_slices_2[1][i + 1], neumann_slices_2[2][i + 1])]]]

\* a[sl] = b[sl]
DirchletEdge(a, b, sl) ==
    SetItem(a, sl, [idx \in DOMAIN a.data |-> GetItem(b, sl, idx)])

\* body of the loop over the axes, DIRCHLET: the temperature takes the
\* statement of the NEUMANN branch
DirchletAxis(s, i) ==
    [s EXCEPT
        !.temperature = TemperatureEdge(s.temperature, neumann_slices_1[1][i + 1],
                                        neumann_slices_1[2][i + 1]),
        !.fields = [j \in 1..Len(s.fields) |->
            [s.fields[j] EXCEPT !.data =
                DirchletEdge(DirchletEdge(s.fields[j].data, s.bca[j],
                                          dirchlet_slices_1[i + 1]),
                             s.bca[j], dirchlet_slices_2[i + 1])]]]

\* one iteration of a loop over the axes under token tok; under a token that
\* matches no branch the iteration does nothing
AxisStep(s, tok, i) ==
    CASE tok = "PERIODIC" -> PeriodicAxis(s, i)
      [] tok = "NEUMANN" -> NeumannAxis(s, i)
      [] tok = "DIRCHLET" -> DirchletAxis(s, i)
      [] OTHER -> s

\* for i in range(dims), one token for every axis
RECURSIVE UniformLoop(_, _, _, _)
UniformLoop(s, tok, i, dims) ==
    IF i >= dims THEN s ELSE UniformLoop(AxisStep(s, tok, i), tok, i + 1, dims)

\* for i in range(len(type)), the i-th token for the i-th iteration
RECURSIVE ListLoop(_, _, _)
ListLoop(s, toks, i) ==
    IF i >= Len(toks) THEN s ELSE ListLoop(AxisStep(s, toks[i + 1], i), toks, i + 1)

RecognizedTokens == {"PERIODIC", "NEUMANN", "DIRCHLET"}

\* apply_boundary_conditions on the host arrays.  The branch taken for a
\* type that equals none of the three tokens is the per-axis loop: over the
\* entries of a list; over the characters of any other string, none of which
\* equals a token, so that nothing is written; and len(None) raises TypeError.
ApplyBoundaryConditions(s, type) ==
    IF type.kind = "str" /\ type.tok \in RecognizedTokens
    THEN UniformLoop(s, type.tok, 0, Rank(s.fields[1].data))
    ELSE IF type.kind = "list" THEN ListLoop(s, type.toks, 0)
    ELSE IF type.kind = "str" THEN s
    ELSE [s EXCEPT !.raised = TRUE]

----------------------------------------------------------------------------
(* The state after construction and set-up *)

\* cell values that differ from cell to cell, so that a copy shows its source
Weight(idx) ==
    idx[1] + (IF Len(idx) > 1 THEN 10 * idx[2] ELSE 0)
           + (IF Len(idx) > 2 THEN 100 * idx[3] ELSE 0)

\* the shape of the fields: dimensions plus two ghost cells per axis
Padded(dim) == [p \in 1..Len(dim) |-> dim[p] + 2]

\* the fields a subclass adds with add_field
InitFields(dim) ==
    [j \in 1..NumFields |->
        [name |-> j, data |-> MkArray(Padded(dim),
                               [idx \in Indices(Padded(dim)) |-> 1000 * j + Weight(idx)])]]

\* np.zeros(dim), dim = [len(fields)] + padded dimensions
ZeroBoundaryArray(n, dim) == [j \in 1..n |-> MkArray(Padded(dim), [idx \in Indices(Padded(dim)) |-> 0])]

\* a boundary-value array the engine or the user has written values into
UserBoundaryArray(n, dim) ==
    [j \in 1..n |->
        MkArray(Padded(dim),
                [idx \in Indices(Padded(dim)) |->
                    j + 2 * idx[1] + (IF Len(idx) > 1 THEN 5 * idx[2] ELSE 0)
                      + (IF Len(idx) > 2 THEN 11 * idx[3] ELSE 0)])]

NoTemperature == [isNone |-> TRUE, data |-> <<>>]
\* a temperature field that varies from cell to cell
SomeTemperature(dim) ==
    [isNone |-> FALSE, data |-> MkArray(dim, [idx \in Indices(dim) |-> 500 + Weight(idx)])]

\* dimensions: the same number of cells (at least 2) on each of 1 to 3 axes
DimensionChoices == { [p \in 1..r |-> d] : r \in 1..3, d \in 2..MaxDim }

AllTokens == RecognizedTokens \cup {"UNKNOWN"}

\* the boundary condition specs a caller passes for a region of the given rank
BCChoices(rank) ==
    {BCNone} \cup { BCToken(t) : t \in AllTokens }
             \cup { BCList(l) : l \in [1..rank -> AllTokens] }

NoCall == [n |-> 0, reset |-> FALSE, i |-> 0, c |-> 0, f0 |-> <<>>, p0 |-> <<>>]
NoCkpt == [decided |-> FALSE, due |-> FALSE, saved |-> FALSE, name |-> <<>>, counter |-> 0]
NoSave == [called |-> FALSE, raised |-> FALSE, counter |-> 0]
NoLoad == [called |-> FALSE, ok |-> FALSE, savedAt |-> Unset, dict |-> <<>>,
           step |-> -1, dir |-> FALSE, opened |-> <<>>]
NoUpd == [ran |-> FALSE, raised |-> FALSE, t |-> 0, Tbefore |-> <<>>, Tafter |-> <<>>,
          before |-> <<>>, after |-> <<>>]
NoRead == [op |-> "none", stale |-> FALSE]
NoHist == [first |-> TRUE,        \* no simulate call was made yet
           initAtStart |-> FALSE, \* the latest simulate call ran initialize_simulation
           prevReset |-> FALSE,   \* reset argument of the latest returned simulate call
           returned |-> FALSE,    \* the latest simulate call has returned
           steps |-> 0,           \* steps requested so far, over all calls
           calls |-> 0,           \* simulate calls so far
           lastOp |-> "none",     \* the latest call the user made
           loads |-> 0,           \* load_simulation calls so far
           log |-> <<>>,          \* sub-steps of the current step, in the order they ran
           engineSaw |-> 0,       \* the counter the engine of the latest step read
           ckpt |-> NoCkpt,       \* the latest checkpoint decision of the step loop
           save |-> NoSave,       \* the latest save_simulation call by the user
           load |-> NoLoad,       \* the latest load_simulation call
           upd |-> NoUpd,         \* the latest update_temperature_field call
           tBase |-> <<>>,        \* the temperature as last initialized (or loaded)
           updates |-> 0,         \* temperature updates since then
           dirty |-> FALSE,       \* the device copy was worked on since the last transfer
           read |-> NoRead]       \* the latest read of the host fields
NoBcobs == [sets |-> 0, applied |-> 0, raised |-> FALSE, pre |-> <<>>, first |-> <<>>]

\* what a direct call of apply_boundary_conditions reads and writes
BCState == [fields |-> fields, temperature |-> temperature,
            bca |-> _boundary_conditions_array, dx |-> dx, raised |-> FALSE]

----------------------------------------------------------------------------
(* Boundary conditions applied by the caller: set_boundary_conditions and   *)
(* apply_boundary_conditions called directly on an initialized simulation   *)

InitBC ==
    /\ dimensions \in DimensionChoices
    /\ fields = InitFields(dimensions)
    /\ dx \in {1, 2}
    /\ dt = 1
    /\ time_step_counter = 0
    /\ _time_step_counter = Unset
    /\ temperature \in {NoTemperature, SomeTemperature(dimensions)}
    /\ _temperature_type = IF temperature.isNone THEN "NONE" ELSE "LINEAR_GRADIENT"
    /\ _initial_T = 500
    /\ _dTdxyz = <<0, 0, 0>>
    /\ _dTdt = 0
    /\ _temperature_path = <<>>
    /\ xdmf = <<>>
    /\ _t_file_index = -1
    /\ _t_file_bounds = <<0, 0>>
    /\ _t_file_arrays = << <<>>, <<>> >>
    /\ _fields_gpu_device = <<>>
    /\ user_data = <<>>
    /\ _requires_initialization = FALSE
    /\ _save_path = "data"
    /\ _autosave_flag = FALSE
    /\ _autosave_rate = 1
    /\ _boundary_conditions_type = BCNone
    /\ _boundary_conditions_array \in
          {ZeroBoundaryArray(NumFields, dimensions), UserBoundaryArray(NumFields, dimensions)}
    /\ files = <<>>
    /\ _framework = "CPU_SERIAL"
    /\ _uses_gpu = FALSE
    /\ pc = "idle"
    /\ call = NoCall
    /\ hist = NoHist
    /\ bcobs = NoBcobs

\* set_boundary_conditions(boundary_conditions_type)
set_boundary_conditions(type) ==
    /\ pc = "idle"
    /\ bcobs.applied = 0 /\ bcobs.sets = 0
    /\ _boundary_conditions_type' = type
    /\ bcobs' = [bcobs EXCEPT !.sets = 1]
    /\ UNCHANGED << fields, time_step_counter, _time_step_counter, temperature,
                    _requires_initialization, _save_path, _boundary_conditions_array,
                    _uses_gpu, files, pc, call, hist, t_file,
                    _fields_gpu_device, params >>

\* apply_boundary_conditions() called by the user; an exception ends the run
apply_boundary_conditions ==
    /\ pc = "idle"
    /\ bcobs.applied < 2
    /\ \E r \in { IF _uses_gpu THEN BCState
                   ELSE ApplyBoundaryConditions(BCState, _boundary_conditions_type) } :
          /\ fields' = r.fields
          /\ temperature' = r.temperature
          /\ pc' = IF r.raised THEN "error" ELSE "idle"
          /\ bcobs' = [sets |-> bcobs.sets,
                       applied |-> bcobs.applied + 1,
                       raised |-> r.raised,
                       pre |-> IF bcobs.applied = 0
                               THEN [fields |-> fields, temperature |-> temperature,
                                     bca |-> _boundary_conditions_array]
                               ELSE bcobs.pre,
                       first |-> IF bcobs.applied = 0
                                 THEN [fields |-> r.fields, temperature |-> r.temperature]
                                 ELSE bcobs.first]
    /\ UNCHANGED << time_step_counter, _time_step_counter, _requires_initialization,
                    _save_path, _boundary_conditions_type, _boundary_conditions_array,
                    _uses_gpu, files, call, hist, t_file,
                    _fields_gpu_device, params >>

NextBC ==
    \/ \E type \in BCChoices(Len(dimensions)) : set_boundary_conditions(type)
    \/ apply_boundary_conditions

SpecBC == InitBC /\ [][NextBC]_vars

----------------------------------------------------------------------------
(* File names: str(), the parsing of load_simulation *)

Digits == <<"0", "1", "2", "3", "4", "5", "6", "7", "8", "9">>

\* str(n) of a non-negative integer, as a sequence of characters
RECURSIVE Str(_)
Str(n) == IF n < 10 THEN <<Digits[n + 1]>> ELSE Str(n \div 10) \o <<Digits[(n % 10) + 1]>>

step_ == <<"s", "t", "e", "p", "_">>

\* "step_" + str(n); np.savez appends ".npz" and Path.stem removes it again
StepName(n) == step_ \o Str(n)

isdigit(ch) == \E d \in 1..10 : Digits[d] = ch
DigitValue(ch) == (CHOOSE d \in 1..10 : Digits[d] = ch) - 1

\* filename.find(sub): the 0-based index of the first occurrence, or -1
find(filename, sub) ==
    LET hits == { k \in 0..(Len(filename) - Len(sub)) :
                    SubSeq(filename, k + 1, k + Len(sub)) = sub }
    IN IF hits = {} THEN -1 ELSE CHOOSE k \in hits : \A h \in hits : k <= h

\* the while loop of load_simulation: the end of the run of digits from i
RECURSIVE DigitsEnd(_, _)
DigitsEnd(filename, i) ==
    IF i < Len(filename) /\ isdigit(filename[i + 1]) THEN DigitsEnd(filename, i + 1) ELSE i

\* int(s) of a sequence of digits (int('') raises ValueError: ok is FALSE)
RECURSIVE IntOfDigits(_)
IntOfDigits(str) ==
    IF str = <<>> THEN 0
    ELSE 10 * IntOfDigits(SubSeq(str, 1, Len(str) - 1)) + DigitValue(str[Len(str)])

\* the step number load_simulation reads from a file name: [ok, value]
ParseStep(filename) ==
    LET step_start_index == find(filename, step_) + Len(step_)
        i == DigitsEnd(filename, step_start_index)
        digits == SubSeq(filename, step_start_index + 1, i)
    IN IF step_start_index = -1 THEN [ok |-> TRUE, value |-> 0]
       ELSE IF digits = <<>> THEN [ok |-> FALSE, value |-> 0]
       ELSE [ok |-> TRUE, value |-> IntOfDigits(digits)]

----------------------------------------------------------------------------
(* The temperature field *)

\* np.arange(0, length*dx*g, g) added along one axis: defined (and of the
\* length of the axis) only for a non-zero gradient g and dx = 1
RampOk(g, h) == g # 0 /\ h = 1

\* temperature.data += v
AddToTemperature(T, v) ==
    [T EXCEPT !.data = [T.data EXCEPT !.data = [idx \in DOMAIN T.data.data |->
                                                    T.data.data[idx] + v]]]

TemperatureTypes == {"ISOTHERMAL", "LINEAR_GRADIENT", "XDMF_FILE", "NONE"}

\* self._t_file_index = None, self._t_file_arrays = [None, None]
NoIndex == -1
NoArray == [shape |-> <<>>, data |-> <<>>]
NoBracket == [index |-> NoIndex, bounds |-> <<0, 0>>, arrays |-> <<NoArray, NoArray>>,
              raised |-> FALSE]

\* the bracket the object holds
Bracket == [index |-> _t_file_index, bounds |-> _t_file_bounds,
            arrays |-> _t_file_arrays, raised |-> FALSE]

\* save_path + "/T.xdmf"
T_xdmf(path) == <<path, "T.xdmf">>
NoPath == <<>>

\* mio.xdmf.TimeSeriesReader(path): the snapshots of the file, [ok, snaps]
TimeSeriesReader(path) ==
    IF path \in DOMAIN xdmf THEN [ok |-> TRUE, snaps |-> xdmf[path]]
    ELSE [ok |-> FALSE, snaps |-> <<>>]

\* reader.read_data(k): the k-th snapshot (0-based), an IndexError past the last
read_data(snaps, k) ==
    IF k >= 0 /\ k < Len(snaps)
    THEN [ok |-> TRUE, t |-> snaps[k + 1].t, T |-> snaps[k + 1].T]
    ELSE [ok |-> FALSE, t |-> 0, T |-> NoArray]

\* an advance that reads the next snapshot but keeps the old lower pair
RECURSIVE AdvanceWithoutPromotion(_, _, _)
AdvanceWithoutPromotion(b, snaps, t) ==
    IF ~(t > b.bounds[2]) THEN b
    ELSE LET next == read_data(snaps, b.index + 1)
         IN IF b.index = NoIndex THEN [b EXCEPT !.raised = TRUE]
            ELSE IF ~next.ok THEN [b EXCEPT !.index = b.index + 1, !.raised = TRUE]
            ELSE AdvanceWithoutPromotion([b EXCEPT !.index = b.index + 1,
                                                   !.bounds[2] = next.t,
                                                   !.arrays[2] = next.T], snaps, t)

\* an advance that stops at the last pair of the file instead of failing
RECURSIVE AdvanceOrHold(_, _, _)
AdvanceOrHold(b, snaps, t) ==
    IF ~(t > b.bounds[2]) THEN b
    ELSE LET promoted == [b EXCEPT !.bounds[1] = b.bounds[2], !.arrays[1] = b.arrays[2]]
             next == read_data(snaps, b.index + 1)
         IN IF b.index = NoIndex THEN [b EXCEPT !.raised = TRUE]
            ELSE IF ~next.ok THEN b
            ELSE AdvanceOrHold([promoted EXCEPT !.index = b.index + 1,
                                                !.bounds[2] = next.t,
                                                !.arrays[2] = next.T], snaps, t)

\* The body of the while loops over the bracket: the upper pair becomes the
\* lower pair, the index advances and the next snapshot becomes the upper
\* pair.  None += 1 and read_data past the last snapshot raise after the
\* statements before them have run.
RECURSIVE AdvanceBracket(_, _, _)
AdvanceBracket(b, snaps, t) ==
    IF ~(t > b.bounds[2]) THEN b
    ELSE LET promoted == [b EXCEPT !.bounds[1] = b.bounds[2], !.arrays[1] = b.arrays[2]]
             next == read_data(snaps, b.index + 1)
         IN IF b.index = NoIndex THEN [promoted EXCEPT !.raised = TRUE]
            ELSE IF ~next.ok THEN [promoted EXCEPT !.index = b.index + 1, !.raised = TRUE]
            ELSE AdvanceBracket([promoted EXCEPT !.index = b.index + 1,
                                                 !.bounds[2] = next.t,
                                                 !.arrays[2] = next.T], snaps, t)

\* an interpolation with the two weights exchanged
InterpolateSwapped(b, t) ==
    MkArray(b.arrays[1].shape,
            [idx \in DOMAIN b.arrays[1].data |->
                (b.arrays[2].data[idx] * (b.bounds[2] - t)) \div (b.bounds[2] - b.bounds[1])
              + (b.arrays[1].data[idx] * (t - b.bounds[1])) \div (b.bounds[2] - b.bounds[1])])

\* arrays[0]*(bounds[1] - t)/(bounds[1] - bounds[0])
\*     + arrays[1]*(t - bounds[0])/(bounds[1] - bounds[0])
Interpolate(b, t) ==
    MkArray(b.arrays[1].shape,
            [idx \in DOMAIN b.arrays[1].data |->
                (b.arrays[1].data[idx] * (b.bounds[2] - t)) \div (b.bounds[2] - b.bounds[1])
              + (b.arrays[2].data[idx] * (t - b.bounds[1])) \div (b.bounds[2] - b.bounds[1])])

\* the XDMF_FILE branch of init_temperature_field: [temperature, b, raised]
InitFromFile(T, path, step_length, counter) ==
    LET reader == TimeSeriesReader(T_xdmf(path))
        d0 == read_data(reader.snaps, 0)
        d1 == read_data(reader.snaps, 1)
        b0 == [NoBracket EXCEPT !.index = 1]
        b1 == [b0 EXCEPT !.bounds[1] = d0.t, !.arrays[1] = d0.T]
        b2 == [b1 EXCEPT !.bounds[2] = d1.t, !.arrays[2] = d1.T]
        b3 == AdvanceBracket(b2, reader.snaps, step_length * counter)
    IN IF path = "None" \/ ~reader.ok \/ ~d0.ok THEN [temperature |-> T, b |-> b0, raised |-> TRUE]
       ELSE IF ~d1.ok THEN [temperature |-> T, b |-> b1, raised |-> TRUE]
       ELSE IF b3.raised THEN [temperature |-> T, b |-> [b3 EXCEPT !.raised = FALSE],
                               raised |-> TRUE]
       ELSE [temperature |-> [isNone |-> FALSE, data |-> Interpolate(b3, step_length * counter)],
             b |-> b3, raised |-> FALSE]

\* init_temperature_field: [temperature, b, raised]; a mode that matches no
\* branch leaves everything as it is
InitTemperatureField(type, dim, T, T0, grad, dTdt, counter, h, b) ==
    CASE type = "ISOTHERMAL" ->
            [temperature |-> [isNone |-> FALSE, data |-> MkArray(dim, [idx \in Indices(dim) |-> T0])],
             b |-> b, raised |-> FALSE]
      [] type = "LINEAR_GRADIENT" ->
            IF \A p \in 1..Len(dim) : RampOk(grad[p], h)
            THEN [temperature |->
                    [isNone |-> FALSE,
                     data |-> MkArray(dim, [idx \in Indices(dim) |->
                        T0 + idx[Len(dim)] * grad[1]
                           + (IF Len(dim) > 1 THEN idx[Len(dim) - 1] * grad[2] ELSE 0)
                           + (IF Len(dim) > 2 THEN idx[Len(dim) - 2] * grad[3] ELSE 0)
                           + counter * dTdt])],
                  b |-> b, raised |-> FALSE]
            ELSE [temperature |-> T, b |-> b, raised |-> TRUE]
      [] type = "XDMF_FILE" -> InitFromFile(T, _save_path, dt, counter)
      [] OTHER -> [temperature |-> T, b |-> b, raised |-> FALSE]

\* an update that adds dTdt without the length of the time step
UpdateWithoutStepLength(type, T, dTdt, step_length, counter, b) ==
    [temperature |-> IF type = "LINEAR_GRADIENT" /\ ~T.isNone
                     THEN AddToTemperature(T, dTdt) ELSE T,
     b |-> b, raised |-> FALSE]

\* update_temperature_field on the host: [temperature, b, raised]
UpdateTemperatureField(type, T, dTdt, step_length, counter, b) ==
    CASE type = "ISOTHERMAL" -> [temperature |-> T, b |-> b, raised |-> FALSE]
      [] type = "LINEAR_GRADIENT" ->
            IF T.isNone THEN [temperature |-> T, b |-> b, raised |-> TRUE]
            ELSE [temperature |-> AddToTemperature(T, dTdt * step_length), b |-> b,
                  raised |-> FALSE]
      [] type = "XDMF_FILE" ->
            LET t == step_length * counter
                reader == TimeSeriesReader(_temperature_path)
                b1 == IF ~(t > b.bounds[2]) THEN b
                      ELSE IF ~reader.ok THEN [b EXCEPT !.raised = TRUE]
                      ELSE AdvanceBracket(b, reader.snaps, t)
            IN IF b1.raised THEN [temperature |-> T, b |-> [b1 EXCEPT !.raised = FALSE],
                                  raised |-> TRUE]
               ELSE IF b1.arrays[1] = NoArray \/ b1.arrays[2] = NoArray \/ T.isNone
                    THEN [temperature |-> T, b |-> b1, raised |-> TRUE]
               ELSE [temperature |-> [T EXCEPT !.data = Interpolate(b1, t)], b |-> b1,
                     raised |-> FALSE]
      [] type = "NONE" -> [temperature |-> T, b |-> b, raised |-> FALSE]
      [] OTHER -> [temperature |-> T, b |-> b, raised |-> type \notin TemperatureTypes]

----------------------------------------------------------------------------
(* Checkpoints *)

NoneArg == [kind |-> "None", name |-> <<>>]
DirArg == [kind |-> "dir", name |-> <<>>]
FileArg(name) == [kind |-> "file", name |-> name]

\* d[key] = value on a dict kept as the sequence of its items
RECURSIVE DictSet(_, _, _)
DictSet(d, key, value) ==
    IF d = <<>> THEN << [name |-> key, data |-> value] >>
    ELSE IF d[1].name = key THEN << [name |-> key, data |-> value] >> \o Tail(d)
    ELSE << d[1] >> \o DictSet(Tail(d), key, value)

\* save_dict of save_simulation: for i in range(len(fields)): save_dict[name] = data
RECURSIVE SaveDict(_, _)
SaveDict(flds, i) ==
    IF i = 0 THEN <<>> ELSE DictSet(SaveDict(flds, i - 1), flds[i].name, flds[i].data)

FileWrite(fs, name, contents) ==
    [n \in DOMAIN fs \cup {name} |-> IF n = name THEN contents ELSE fs[n]]

\* save_simulation: [raised, files, name].  Without a save path the code reads
\* self._engine, and the file name reads self._time_step_counter: either
\* attribute, when never assigned, raises AttributeError before anything is
\* written.  savedAt notes the value of time_step_counter at the save.
SaveSimulation(flds, path, counter_, counter, fs) ==
    IF path = "None" \/ counter_ = Unset
    THEN [raised |-> TRUE, files |-> fs, name |-> <<>>]
    ELSE [raised |-> FALSE,
          files |-> FileWrite(fs, StepName(counter_),
                              [dict |-> SaveDict(flds, Len(flds)), savedAt |-> counter]),
          name |-> StepName(counter_)]

\* the Field objects load_simulation builds from the items of the file
LoadedFields(dict) == [k \in 1..Len(dict) |-> [name |-> dict[k].name, data |-> dict[k].data]]

\* the file load_simulation opens: [raised, name]
ResolvePath(file_path, step, path) ==
    LET fp == IF file_path.kind = "None"
              THEN (IF path = "None" THEN NoneArg ELSE DirArg)
              ELSE file_path
    IN IF fp.kind = "None" THEN [raised |-> TRUE, name |-> <<>>, dir |-> FALSE]
       ELSE IF fp.kind = "dir"
            THEN (IF step > -1 THEN [raised |-> FALSE, name |-> StepName(step), dir |-> TRUE]
                  ELSE [raised |-> TRUE, name |-> <<>>, dir |-> TRUE])
       ELSE [raised |-> FALSE, name |-> fp.name, dir |-> FALSE]

\* the value load_simulation assigns to self._time_step_counter: [ok, value]
LoadedStep(step, filename) ==
    IF step < 0 THEN ParseStep(filename) ELSE [ok |-> TRUE, value |-> step]

----------------------------------------------------------------------------
(* The GPU backend: the device copy of the fields *)

\* self._fields_gpu_device = None
NoDevice == <<>>

\* ppf_gpu_utils.send_fields_to_GPU: the device copy becomes the host fields
send_fields_to_GPU(flds) == flds

\* ppf_gpu_utils.retrieve_fields_from_GPU: the host fields become the device copy
retrieve_fields_from_GPU(device, flds) == IF device = NoDevice THEN flds ELSE device

\* ppf_gpu_utils.apply_boundary_conditions: the same boundary conditions,
\* written into the device copy (nothing is written while there is none)
DeviceBoundaryConditions(device, s, type) ==
    IF device = NoDevice THEN device
    ELSE ApplyBoundaryConditions([s EXCEPT !.fields = device], type).fields

----------------------------------------------------------------------------
(* simulate, save_simulation and load_simulation *)

\* a checkpoint an earlier run left in the save directory
OldCheckpoint(dim) ==
    [dict |-> [j \in 1..NumFields |->
                 [name |-> j,
                  data |-> MkArray(Padded(dim),
                                  [idx \in Indices(Padded(dim)) |-> 2000 * j + Weight(idx)])]],
     savedAt |-> Unset]

\* the time stamps of the tabulated temperature files of the runs explored
SeriesA == <<0, 4, 5>>
SeriesB == <<0, 3, 6>>

\* a time series file: one temperature array (key "T") per time stamp
Snapshots(dim, stamps) ==
    [k \in 1..Len(stamps) |->
        [t |-> stamps[k],
         T |-> MkArray(dim, [idx \in Indices(dim) |-> 12 * (40 + 7 * k * k + Weight(idx))])]]

\* the temperature modes and boundary condition specs of the runs explored
Configurations ==
    { <<"NONE", BCToken("PERIODIC")>>,
      <<"ISOTHERMAL", BCList(<<"NEUMANN">>)>>,
      <<"LINEAR_GRADIENT", BCToken("DIRCHLET")>>,
      <<"LINEAR_GRADIENT", BCToken("PERIODIC")>>,
      <<"UNKNOWN", BCToken("NEUMANN")>>,
      <<"ISOTHERMAL", BCNone>> }

\* The state after construction, add_field and set_boundary_conditions, for
\* the given choices of dimensions, <<temperature mode, boundary conditions>>,
\* framework, time series file, temperature path and old checkpoints.
Setup(dims, cfgs, frameworks, series, paths, checkpoints) ==
    /\ dimensions \in dims
    /\ fields = InitFields(dimensions)
    /\ dx = 1
    /\ dt = 2
    /\ time_step_counter = 0
    /\ _time_step_counter = Unset
    /\ temperature = NoTemperature
    /\ \E cfg \in cfgs :
          /\ _temperature_type = cfg[1]
          /\ _boundary_conditions_type = cfg[2]
    /\ _initial_T = 500
    /\ _dTdxyz = <<2, 3, 5>>
    /\ _dTdt = 7
    /\ _temperature_path \in paths
    /\ \E stamps \in series :
          xdmf = [p \in {T_xdmf("data")} |-> Snapshots(dimensions, stamps)]
    /\ _t_file_index = NoIndex
    /\ _t_file_bounds = <<0, 0>>
    /\ _t_file_arrays = <<NoArray, NoArray>>
    /\ _requires_initialization = TRUE
    /\ _save_path = "data"
    /\ _autosave_flag \in BOOLEAN
    /\ _autosave_rate \in (IF _autosave_flag THEN {1, 2} ELSE {1})
    /\ _boundary_conditions_array = <<>>
    /\ files = [n \in checkpoints |-> OldCheckpoint(dimensions)]
    /\ _framework \in frameworks
    /\ _uses_gpu = FALSE
    /\ _fields_gpu_device = NoDevice
    /\ user_data = <<>>
    /\ pc = "idle"
    /\ call = NoCall
    /\ hist = NoHist
    /\ bcobs = NoBcobs

Init == Setup({<< MaxDim >>}, Configurations, {"CPU_SERIAL"}, {SeriesA},
              {T_xdmf("data")}, {StepName(12)})

\* initialize_simulation: [fields, temperature, bca, uses_gpu, device, b, raised].
\* init_boundary_conditions allocates the boundary-value array and applies the
\* boundary conditions (the temperature is still the old one then), then
\* init_temperature_field builds the temperature; init_tdb_params returns at
\* once without a tdb path; on the GPU the fields are sent to the device last.
InitializeSimulation(flds, T, gpu) ==
    LET uses == gpu \/ _framework \in {"GPU_SERIAL", "GPU_PARALLEL"}
        zeros == ZeroBoundaryArray(Len(flds), dimensions)
        s0 == [fields |-> flds, temperature |-> T, bca |-> zeros, dx |-> dx,
               raised |-> FALSE]
        s1 == IF uses THEN s0 ELSE ApplyBoundaryConditions(s0, _boundary_conditions_type)
        d1 == IF uses
              THEN DeviceBoundaryConditions(_fields_gpu_device, s0, _boundary_conditions_type)
              ELSE _fields_gpu_device
        t == InitTemperatureField(_temperature_type, dimensions, s1.temperature,
                                  _initial_T, _dTdxyz, _dTdt, time_step_counter, dx,
                                  Bracket)
    IN IF s1.raised
       THEN [fields |-> s1.fields, temperature |-> s1.temperature, bca |-> zeros,
             uses_gpu |-> uses, device |-> d1, b |-> Bracket, raised |-> TRUE]
       ELSE [fields |-> s1.fields, temperature |-> t.temperature, bca |-> zeros,
             uses_gpu |-> uses,
             device |-> IF uses /\ ~t.raised THEN send_fields_to_GPU(s1.fields) ELSE d1,
             b |-> t.b, raised |-> t.raised]

\* what simulate does in place of initialize_simulation when none is required
NoInitialization ==
    [fields |-> fields, temperature |-> temperature, bca |-> _boundary_conditions_array,
     uses_gpu |-> _uses_gpu, device |-> _fields_gpu_device, b |-> Bracket,
     raised |-> FALSE]

\* simulate(number_of_timesteps, reset), up to the loop: the lazy initialization
simulate(number_of_timesteps, reset) ==
    /\ pc = "idle"
    /\ hist.steps + number_of_timesteps <= MaxCounter
    /\ hist.calls < MaxCalls
    /\ \E r \in { IF _requires_initialization
                   THEN InitializeSimulation(fields, temperature, _uses_gpu)
                   ELSE NoInitialization } :
          /\ IF _requires_initialization
             THEN /\ fields' = r.fields
                  /\ temperature' = r.temperature
                  /\ _boundary_conditions_array' = r.bca
                  /\ _uses_gpu' = r.uses_gpu
                  /\ _fields_gpu_device' = r.device
                  /\ _t_file_index' = r.b.index
                  /\ _t_file_bounds' = r.b.bounds
                  /\ _t_file_arrays' = r.b.arrays
                  /\ _requires_initialization' = r.raised
                  /\ pc' = IF r.raised THEN "error" ELSE "loop"
             ELSE /\ pc' = "loop"
                  /\ UNCHANGED << fields, temperature, _boundary_conditions_array,
                                  _uses_gpu, _requires_initialization, t_file,
                                  _fields_gpu_device >>
          /\ hist' = [hist EXCEPT !.first = FALSE,
                                  !.lastOp = "simulate",
                                  !.initAtStart = _requires_initialization,
                                  !.returned = FALSE,
                                  !.steps = hist.steps + number_of_timesteps,
                                  !.calls = hist.calls + 1,
                                  !.log = <<>>,
                                  !.ckpt = NoCkpt,
                                  !.upd = NoUpd,
                                  !.load = NoLoad,
                                  !.read = NoRead,
                                  !.tBase = IF _requires_initialization
                                            THEN r.temperature ELSE hist.tBase,
                                  !.updates = IF _requires_initialization
                                              THEN 0 ELSE hist.updates,
                                  !.dirty = IF _requires_initialization /\ r.uses_gpu
                                            THEN FALSE ELSE hist.dirty]
    /\ call' = [n |-> number_of_timesteps, reset |-> reset, i |-> 0,
                c |-> time_step_counter, f0 |-> fields,
                p0 |-> << dimensions, dx, dt, user_data >>]
    /\ UNCHANGED << time_step_counter, _time_step_counter, _save_path,
                    _boundary_conditions_type, files, bcobs, params >>

\* the loop body with the boundary application before the temperature update
StepOrderSwapped == <<"engine", "boundary", "temperature", "checkpoint">>

\* the statements of the loop body after the increment, in the order of the source
StepOrder == <<"engine", "temperature", "boundary", "checkpoint">>

\* the position after sub-step p of the loop body
After(p) ==
    LET k == CHOOSE q \in 1..Len(StepOrder) : StepOrder[q] = p
    IN IF k = Len(StepOrder) THEN "loop" ELSE StepOrder[k + 1]

\* a counter advanced twice per step
IncrementedTwice(counter) == counter + 2

\* self.time_step_counter += 1
Incremented(counter) == counter + 1

\* for i in range(number_of_timesteps): the head of an iteration
increment ==
    /\ pc = "loop"
    /\ call.i < call.n
    /\ time_step_counter' = Incremented(time_step_counter)
    /\ pc' = StepOrder[1]
    /\ hist' = [hist EXCEPT !.log = <<>>, !.ckpt = NoCkpt]
    /\ UNCHANGED << fields, _time_step_counter, temperature, _requires_initialization,
                    _save_path, _boundary_conditions_type, _boundary_conditions_array,
                    _uses_gpu, files, call, bcobs, t_file,
                    _fields_gpu_device, params >>

\* simulation_loop(): the base class does nothing (on the GPU the engine of
\* a subclass works on the device copy)
simulation_loop ==
    /\ pc = "engine"
    /\ pc' = After("engine")
    /\ hist' = [hist EXCEPT !.log = Append(hist.log, "engine"),
                            !.engineSaw = time_step_counter,
                            !.dirty = hist.dirty \/ _uses_gpu]
    /\ UNCHANGED << fields, time_step_counter, _time_step_counter, temperature,
                    _requires_initialization, _save_path, _boundary_conditions_type,
                    _boundary_conditions_array, _uses_gpu, files, call, bcobs, t_file,
                    _fields_gpu_device, params >>

\* what an update_temperature_field call did: the time it was called at, the
\* temperature and the bracket before and after it
Updated(r) ==
    [ran |-> TRUE, raised |-> r.raised, t |-> dt * time_step_counter,
     Tbefore |-> temperature, Tafter |-> r.temperature,
     before |-> Bracket, after |-> r.b]

\* update_temperature_field() of the loop body
update_temperature_field ==
    /\ pc = "temperature"
    /\ \E r \in { IF _uses_gpu
                   THEN [temperature |-> temperature, b |-> Bracket, raised |-> FALSE]
                   ELSE UpdateTemperatureField(_temperature_type, temperature, _dTdt, dt,
                                               time_step_counter, Bracket) } :
          /\ temperature' = r.temperature
          /\ _t_file_index' = r.b.index
          /\ _t_file_bounds' = r.b.bounds
          /\ _t_file_arrays' = r.b.arrays
          /\ pc' = IF r.raised THEN "error" ELSE After("temperature")
          /\ hist' = [hist EXCEPT !.log = Append(hist.log, "temperature"),
                                  !.upd = IF _uses_gpu THEN NoUpd ELSE Updated(r),
                                  !.updates = IF r.raised \/ _uses_gpu THEN hist.updates
                                              ELSE hist.updates + 1,
                                  !.dirty = hist.dirty \/ _uses_gpu]
    /\ UNCHANGED << fields, time_step_counter, _time_step_counter,
                    _requires_initialization, _save_path, _boundary_conditions_type,
                    _boundary_conditions_array, _uses_gpu, files, call, bcobs,
                    _fields_gpu_device, params >>

\* apply_boundary_conditions() of the loop body
step_boundary_conditions ==
    /\ pc = "boundary"
    /\ \E r \in { IF _uses_gpu THEN BCState
                   ELSE ApplyBoundaryConditions(BCState, _boundary_conditions_type) } :
          /\ fields' = r.fields
          /\ temperature' = r.temperature
          /\ pc' = IF r.raised THEN "error" ELSE After("boundary")
    /\ _fields_gpu_device' =
          IF _uses_gpu
          THEN DeviceBoundaryConditions(_fields_gpu_device, BCState, _boundary_conditions_type)
          ELSE _fields_gpu_device
    /\ hist' = [hist EXCEPT !.log = Append(hist.log, "boundary"),
                            !.dirty = hist.dirty \/ _uses_gpu]
    /\ UNCHANGED << time_step_counter, _time_step_counter, _requires_initialization,
                    _save_path, _boundary_conditions_type, _boundary_conditions_array,
                    _uses_gpu, files, call, bcobs, t_file, params >>

\* whether the loop body saves a checkpoint at this value of the counter
AutosaveDue(flag, rate, counter) == flag /\ counter % rate = 0

\* what a read of the host fields saw: whether the device copy had been
\* worked on since the fields were last retrieved or sent
HostRead(op, stale) == [op |-> op, stale |-> stale]

\* if(self._autosave_flag): if counter % rate == 0:
\*     if(self._uses_gpu): retrieve_fields_from_GPU; save_simulation()
autosave ==
    /\ pc = "checkpoint"
    /\ LET due == AutosaveDue(_autosave_flag, _autosave_rate, time_step_counter)
           host == IF due /\ _uses_gpu
                   THEN retrieve_fields_from_GPU(_fields_gpu_device, fields) ELSE fields
       IN \E r \in { SaveSimulation(host, _save_path, _time_step_counter,
                                     time_step_counter, files) } :
          /\ fields' = host
          /\ files' = IF due THEN r.files ELSE files
          /\ pc' = IF due /\ r.raised THEN "error" ELSE After("checkpoint")
          /\ call' = IF due /\ r.raised THEN call ELSE [call EXCEPT !.i = call.i + 1]
          /\ hist' = [hist EXCEPT !.log = Append(hist.log, "checkpoint"),
                                  !.ckpt = [decided |-> TRUE, due |-> due,
                                            saved |-> due /\ ~r.raised,
                                            name |-> IF due THEN r.name ELSE <<>>,
                                            counter |-> time_step_counter],
                                  !.dirty = IF due /\ _uses_gpu THEN FALSE ELSE hist.dirty,
                                  !.read = IF due THEN HostRead("autosave", FALSE)
                                           ELSE hist.read]
    /\ UNCHANGED << time_step_counter, _time_step_counter, temperature,
                    _requires_initialization, _save_path, _boundary_conditions_type,
                    _boundary_conditions_array, _uses_gpu, bcobs, t_file,
                    _fields_gpu_device, params >>

\* a return that ignores the reset argument
FlagKept(flag, reset) == flag

\* the flag simulate leaves behind: if(reset): _requires_initialization = True
FlagAtReturn(flag, reset) == IF reset THEN TRUE ELSE flag

\* the end of simulate
simulate_return ==
    /\ pc = "loop"
    /\ call.i >= call.n
    /\ _requires_initialization' = FlagAtReturn(_requires_initialization, call.reset)
    /\ pc' = "idle"
    /\ hist' = [hist EXCEPT !.prevReset = call.reset, !.returned = TRUE]
    /\ UNCHANGED << fields, time_step_counter, _time_step_counter, temperature,
                    _save_path, _boundary_conditions_type, _boundary_conditions_array,
                    _uses_gpu, files, call, bcobs, t_file,
                    _fields_gpu_device, params >>

\* save_simulation() called by the user: the host fields are written as they
\* are (a call that raises writes nothing)
save_simulation ==
    /\ pc = "idle"
    /\ \E r \in { SaveSimulation(fields, _save_path, _time_step_counter,
                                  time_step_counter, files) } :
          /\ files' = r.files
          /\ pc' = IF r.raised THEN "error" ELSE "idle"
          /\ hist' = [hist EXCEPT !.lastOp = "save",
                                  !.load = NoLoad,
                                  !.save = [called |-> TRUE, raised |-> r.raised,
                                            counter |-> time_step_counter],
                                  !.read = IF r.raised THEN hist.read
                                           ELSE HostRead("save_simulation",
                                                         _uses_gpu /\ hist.dirty)]
    /\ UNCHANGED << fields, time_step_counter, _time_step_counter, temperature,
                    _requires_initialization, _save_path, _boundary_conditions_type,
                    _boundary_conditions_array, _uses_gpu, call, bcobs, t_file,
                    _fields_gpu_device, params >>

\* plot_simulation() called by the user: the fields are retrieved from the
\* GPU first, then the host fields are drawn (self.fields[0] of an empty
\* list is an IndexError)
plot_simulation ==
    /\ pc = "idle"
    /\ fields' = IF _uses_gpu THEN retrieve_fields_from_GPU(_fields_gpu_device, fields)
                 ELSE fields
    /\ pc' = IF Len(fields') = 0 THEN "error" ELSE "idle"
    /\ hist' = [hist EXCEPT !.lastOp = "plot",
                            !.dirty = IF _uses_gpu THEN FALSE ELSE hist.dirty,
                            !.read = HostRead("plot_simulation", FALSE)]
    /\ UNCHANGED << time_step_counter, _time_step_counter, temperature,
                    _requires_initialization, _save_path, _boundary_conditions_type,
                    _boundary_conditions_array, _uses_gpu, files, call, bcobs, t_file,
                    _fields_gpu_device, params >>

\* load_simulation(file_path, step) called by the user.  self.fields is
\* emptied first; the path is resolved; np.load raises when the file is
\* missing; the fields are rebuilt from the items of the file; the step number
\* goes to self._time_step_counter; on the GPU the fields are sent to the
\* device; a LINEAR_GRADIENT temperature is advanced and a tabulated one updated.
load_simulation(file_path, step) ==
    /\ pc = "idle"
    /\ hist.loads < MaxLoads
    /\ LET p == ResolvePath(file_path, step, _save_path)
           found == ~p.raised /\ p.name \in DOMAIN files
           n == LoadedStep(step, p.name)
           gradient == _temperature_type = "LINEAR_GRADIENT"
           tabulated == _temperature_type = "XDMF_FILE" /\ ~_uses_gpu
           set == found /\ n.ok
           loaded == IF found THEN LoadedFields(files[p.name].dict) ELSE <<>>
       IN \E u \in { UpdateTemperatureField(_temperature_type, temperature, _dTdt, dt,
                                             time_step_counter, Bracket) } :
          LET ok == set /\ (gradient => ~temperature.isNone) /\ (tabulated => ~u.raised) IN
          /\ fields' = loaded
          /\ _time_step_counter' = IF set THEN n.value ELSE _time_step_counter
          /\ _fields_gpu_device' = IF set /\ _uses_gpu THEN send_fields_to_GPU(loaded)
                                   ELSE _fields_gpu_device
          /\ temperature' = IF ok /\ gradient
                            THEN AddToTemperature(temperature, n.value * _dTdt * dt)
                            ELSE IF set /\ tabulated THEN u.temperature
                            ELSE temperature
          /\ _t_file_index' = IF set /\ tabulated THEN u.b.index ELSE _t_file_index
          /\ _t_file_bounds' = IF set /\ tabulated THEN u.b.bounds ELSE _t_file_bounds
          /\ _t_file_arrays' = IF set /\ tabulated THEN u.b.arrays ELSE _t_file_arrays
          /\ pc' = IF ok THEN "idle" ELSE "error"
          /\ hist' = [hist EXCEPT !.loads = hist.loads + 1,
                                  !.lastOp = "load",
                                  !.load = [called |-> TRUE, ok |-> ok,
                                            savedAt |-> IF ok THEN files[p.name].savedAt
                                                        ELSE Unset,
                                            dict |-> IF ok THEN files[p.name].dict ELSE <<>>,
                                            step |-> step, dir |-> p.dir,
                                            opened |-> IF found THEN p.name ELSE <<>>],
                                  !.upd = IF set /\ tabulated THEN Updated(u) ELSE hist.upd,
                                  !.tBase = IF ok /\ gradient THEN temperature' ELSE hist.tBase,
                                  !.updates = IF ok /\ gradient THEN 0 ELSE hist.updates,
                                  !.dirty = IF set /\ _uses_gpu THEN FALSE ELSE hist.dirty]
    /\ UNCHANGED << time_step_counter, _requires_initialization, _save_path,
                    _boundary_conditions_type, _boundary_conditions_array, _uses_gpu,
                    files, call, bcobs, params >>

\* the arguments the model passes to load_simulation
LoadPaths == {NoneArg, DirArg} \cup { FileArg(n) : n \in DOMAIN files \cup {StepName(0)} }
LoadSteps == {-1, 12}

Next ==
    \/ \E n \in 0..MaxSteps, reset \in BOOLEAN : simulate(n, reset)
    \/ increment
    \/ simulation_loop
    \/ update_temperature_field
    \/ step_boundary_conditions
    \/ autosave
    \/ simulate_return
    \/ save_simulation
    \/ \E file_path \in LoadPaths, step \in LoadSteps : load_simulation(file_path, step)

Spec == Init /\ [][Next]_vars

----------------------------------------------------------------------------
(* Runs with a tabulated temperature file *)

TabulatedConfigurations ==
    { <<"XDMF_FILE", BCToken("PERIODIC")>>, <<"XDMF_FILE", BCList(<<"DIRCHLET">>)>> }

\* temperature_path names the file T.xdmf of the save directory, or is left None
InitTabulated == Setup({<< MaxDim >>}, TabulatedConfigurations, {"CPU_SERIAL"},
                       {SeriesA, SeriesB}, {T_xdmf("data"), NoPath}, {StepName(12)})

SpecTabulated == InitTabulated /\ [][Next]_vars

----------------------------------------------------------------------------
(* Runs on the GPU backend, with plots *)

GPUConfigurations ==
    { <<"NONE", BCToken("PERIODIC")>>, <<"ISOTHERMAL", BCList(<<"NEUMANN">>)>> }

InitGPU == Setup({<< MaxDim >>}, GPUConfigurations, {"GPU_SERIAL"}, {SeriesA},
                 {T_xdmf("data")}, {StepName(12)})

NextGPU ==
    \/ Next
    \/ plot_simulation

SpecGPU == InitGPU /\ [][NextGPU]_vars

----------------------------------------------------------------------------
(* Runs of simulate alone, on regions of 1 to 3 axes under every boundary  *)
(* condition spec                                                           *)

\* the regions of these runs, one per number of axes
FrameDimensions == << << MaxDim >>, << 2, MaxDim >>, << 2, 2, 2 >> >>

\* the per-axis lists of these runs: every list of recognized tokens for one
\* or two axes, and for three axes the lists that name each token once, in turn
FrameLists(rank) ==
    IF rank < 3 THEN [1..rank -> RecognizedTokens]
    ELSE { <<"PERIODIC", "NEUMANN", "DIRCHLET">>, <<"NEUMANN", "DIRCHLET", "PERIODIC">>,
           <<"DIRCHLET", "PERIODIC", "NEUMANN">> }

\* one token for all axes (recognized or not), or one recognized token per axis
FrameConfigurations(rank) ==
    { <<"LINEAR_GRADIENT", BCToken(tok)>> : tok \in AllTokens }
        \cup { <<"LINEAR_GRADIENT", BCList(toks)>> : toks \in FrameLists(rank) }

InitFrame ==
    /\ \E rank \in 1..3 :
          Setup({FrameDimensions[rank]}, FrameConfigurations(rank), {"CPU_SERIAL"},
                {SeriesA}, {T_xdmf("data")}, {StepName(12)})
    /\ ~_autosave_flag

\* one simulate call of any length, and short calls after a reset
NextSimulate ==
    \/ \E n \in 0..MaxSteps, reset \in BOOLEAN :
          /\ hist.calls = 0 \/ (hist.prevReset /\ n <= 1)
          /\ simulate(n, reset)
    \/ increment
    \/ simulation_loop
    \/ update_temperature_field
    \/ step_boundary_conditions
    \/ autosave
    \/ simulate_return

SpecFrame == InitFrame /\ [][NextSimulate]_vars

----------------------------------------------------------------------------
(* Claims about apply_boundary_conditions *)

\* the policy of (1-based) axis a under a boundary condition spec
PolicyAt(type, a) ==
    IF type.kind = "str" THEN type.tok
    ELSE IF type.kind = "list" /\ a <= Len(type.toks) THEN type.toks[a]
    ELSE "unset"

\* index tuple idx moved to python index k along axis a of array A
With(A, idx, a, k) == [idx EXCEPT ![a] = Norm(k, A.shape[a])]

\* the cells of A on the low / high edge of axis a that are interior cells
\* along every other axis (corner cells belong to several axes' edges)
InteriorElsewhere(A, idx, a) ==
    \A p \in 1..Rank(A) : p # a => idx[p] \in 1..(A.shape[p] - 2)
LowEdge(A, a) ==
    { idx \in DOMAIN A.data : idx[a] = 0 /\ InteriorElsewhere(A, idx, a) }
HighEdge(A, a) ==
    { idx \in DOMAIN A.data : idx[a] = A.shape[a] - 1 /\ InteriorElsewhere(A, idx, a) }

Applied == bcobs.applied >= 1 /\ ~bcobs.raised

\* C6: on every PERIODIC axis of every field, after apply_boundary_conditions
\* the cell at index 0 equals the cell at index -2 and the cell at index -1
\* equals the cell at index 1; a second application changes no field.
C6_PeriodicWraps ==
    /\ Applied =>
        \A a \in 1..Len(dimensions) :
            PolicyAt(_boundary_conditions_type, a) = "PERIODIC" =>
                \A j \in 1..Len(fields) :
                    LET A == fields[j].data IN
                    /\ \A idx \in LowEdge(A, a) : A.data[idx] = A.data[With(A, idx, a, -2)]
                    /\ \A idx \in HighEdge(A, a) : A.data[idx] = A.data[With(A, idx, a, 1)]
    /\ (bcobs.applied = 2 /\ ~bcobs.raised) => fields = bcobs.first.fields

\* C7: on every NEUMANN axis of every field j, after apply_boundary_conditions
\* the low edge cell equals the adjacent interior cell minus dx times the
\* boundary value of field j at the edge, and the high edge cell equals the
\* adjacent interior cell plus dx times the boundary value at that edge.
C7_NeumannEdges ==
    Applied =>
        \A a \in 1..Len(dimensions) :
            PolicyAt(_boundary_conditions_type, a) = "NEUMANN" =>
                \A j \in 1..Len(fields) :
                    LET A == fields[j].data
                        B == _boundary_conditions_array[j] IN
                    /\ \A idx \in LowEdge(A, a) :
                          A.data[idx] = A.data[With(A, idx, a, 1)] - dx * B.data[idx]
                    /\ \A idx \in HighEdge(A, a) :
                          A.data[idx] = A.data[With(A, idx, a, -2)] + dx * B.data[idx]

\* C8: on every DIRICHLET axis of every field j, after apply_boundary_conditions
\* both edge cells equal the boundary values of field j at the same indices,
\* and the boundary-value array is what it was before the call.
C8_DirichletEdges ==
    Applied =>
        /\ _boundary_conditions_array = bcobs.pre.bca
        /\ \A a \in 1..Len(dimensions) :
            PolicyAt(_boundary_conditions_type, a) = "DIRCHLET" =>
                \A j \in 1..Len(fields) :
                    LET A == fields[j].data
                        B == _boundary_conditions_array[j] IN
                    \A idx \in LowEdge(A, a) \cup HighEdge(A, a) : A.data[idx] = B.data[idx]

\* C9: with a temperature field, on every DIRICHLET axis both temperature
\* edge cells equal their adjacent interior temperature cells after
\* apply_boundary_conditions.
C9_TemperatureZeroFlux ==
    (Applied /\ ~temperature.isNone) =>
        \A a \in 1..Len(dimensions) :
            PolicyAt(_boundary_conditions_type, a) = "DIRCHLET" =>
                LET T == temperature.data IN
                /\ \A idx \in LowEdge(T, a) : T.data[idx] = T.data[With(T, idx, a, 1)]
                /\ \A idx \in HighEdge(T, a) : T.data[idx] = T.data[With(T, idx, a, -2)]

\* whether a boundary condition spec is, or contains, an unrecognized token
Unrecognized(type) ==
    \/ type.kind = "None"
    \/ type.kind = "str" /\ type.tok \notin RecognizedTokens
    \/ type.kind = "list" /\ \E a \in 1..Len(type.toks) : type.toks[a] \notin RecognizedTokens

\* C10: under a spec that is or contains an unrecognized token (or is unset),
\* apply_boundary_conditions raises, and no cell of a field or of the
\* temperature has been modified.
C10_UnrecognizedRaises ==
    (bcobs.applied >= 1 /\ Unrecognized(_boundary_conditions_type)) =>
        /\ bcobs.raised
        /\ fields = bcobs.pre.fields
        /\ temperature = bcobs.pre.temperature

----------------------------------------------------------------------------
(* Claims about simulate, save_simulation and load_simulation *)

InStep == pc \in {"engine", "temperature", "boundary", "checkpoint"}

\* C1: in a simulate(N) call started at counter c the counter is c+i at the
\* head of the loop after i steps, c+i+1 throughout step i+1 (the engine of
\* that step reads this value) and c+N once the call has returned.
C1_CounterPerStep ==
    /\ pc = "loop" => time_step_counter = call.c + call.i
    /\ InStep => time_step_counter = call.c + call.i + 1
    /\ pc \in {"temperature", "boundary", "checkpoint"} =>
          hist.engineSaw = call.c + call.i + 1
    /\ (pc = "idle" /\ hist.returned) => time_step_counter = call.c + call.n

\* a second call of more than one step, started at a counter above 0, has returned
C1_Witness ==
    /\ pc = "idle" /\ hist.returned /\ hist.lastOp = "simulate"
    /\ call.n >= 2 /\ call.c >= 1
    /\ time_step_counter = call.c + call.n

\* the order the claim gives to the sub-steps of a step
ClaimedOrder == <<"engine", "temperature", "boundary", "checkpoint">>

\* C2: within every step the sub-steps run in the order engine, temperature
\* update, boundary application, checkpoint decision, each after the one
\* before it has finished, and a step starts only when the checkpoint
\* decision of the step before it is made.
C2_StepOrder ==
    /\ InStep =>
          \E k \in 1..Len(ClaimedOrder) :
              /\ ClaimedOrder[k] = pc
              /\ hist.log = SubSeq(ClaimedOrder, 1, k - 1)
    /\ (pc = "loop" /\ call.i > 0) => (hist.log = ClaimedOrder /\ hist.ckpt.decided)
    /\ (pc = "loop" /\ call.i = 0) => hist.log = <<>>

\* the second step of a call has run all its sub-steps
C2_Witness == pc = "loop" /\ call.i = 2 /\ hist.log = ClaimedOrder

\* C3: a simulate call runs initialize_simulation at its start exactly when it
\* is the first call or the call before it was made with reset=True; within
\* the call the flag stays cleared, and at the return it is the reset argument.
C3_LazyInitialization ==
    /\ (hist.calls >= 1 /\ ~hist.returned) =>
          (hist.initAtStart <=> (hist.calls = 1 \/ hist.prevReset))
    /\ (pc = "loop" \/ InStep) => ~_requires_initialization
    /\ (pc = "idle" /\ hist.returned) =>
          (_requires_initialization <=> call.reset)

\* a second call re-initializes after a call made with reset=True
C3_Witness ==
    /\ hist.calls = 2 /\ pc = "loop" /\ hist.prevReset /\ hist.initAtStart
    /\ ~call.reset

\* C4: the step loop persists a checkpoint at the end of a step exactly when
\* autosave is on and the counter is a multiple of the autosave interval,
\* and the checkpoint is the file step_<N>, N the counter at the save.
C4_CheckpointNamed ==
    hist.ckpt.decided =>
        /\ hist.ckpt.saved <=>
              (_autosave_flag /\ hist.ckpt.counter % _autosave_rate = 0)
        /\ hist.ckpt.saved =>
              /\ hist.ckpt.name = StepName(hist.ckpt.counter)
              /\ hist.ckpt.name \in DOMAIN files

\* C5: save_simulation writes a checkpoint of every state, and loading a file
\* save_simulation wrote at counter N yields the saved field names and data
\* and leaves time_step_counter equal to N.
C5_RoundTrip ==
    /\ hist.lastOp = "save" => ~hist.save.raised
    /\ (hist.lastOp = "load" /\ hist.load.ok /\ hist.load.savedAt # Unset) =>
          /\ Len(fields) = Len(hist.load.dict)
          /\ \A k \in 1..Len(fields) :
                /\ fields[k].name = hist.load.dict[k].name
                /\ fields[k].data = hist.load.dict[k].data
          /\ time_step_counter = hist.load.savedAt

----------------------------------------------------------------------------
(* Claims about the temperature field *)

\* C11: under a temperature mode that is none of NONE, ISOTHERMAL,
\* LINEAR_GRADIENT and XDMF_FILE, the initialization a simulate call runs
\* fails (the call does not get to its loop), and every
\* update_temperature_field call fails.
C11_UnknownModeRaises ==
    _temperature_type \notin TemperatureTypes =>
        /\ (hist.calls >= 1 /\ hist.initAtStart) => pc = "error"
        /\ hist.upd.ran => hist.upd.raised

\* the cells of A that are on no edge: along every axis neither index 0 nor -1
InteriorCells(A) ==
    { idx \in DOMAIN A.data : \A p \in 1..Rank(A) : idx[p] \in 1..(A.shape[p] - 2) }

\* C12: in LINEAR_GRADIENT mode every update_temperature_field call adds
\* dTdt*dt to every cell of the temperature it found, and after k updates
\* every cell that is on no edge equals its initialized value plus k*dTdt*dt.
C12_LinearInStepCount ==
    (_temperature_type = "LINEAR_GRADIENT" /\ ~temperature.isNone) =>
        /\ (hist.upd.ran /\ ~hist.upd.raised) =>
              \A idx \in DOMAIN hist.upd.Tafter.data.data :
                  hist.upd.Tafter.data.data[idx] =
                      hist.upd.Tbefore.data.data[idx] + _dTdt * dt
        /\ \A idx \in InteriorCells(temperature.data) :
              temperature.data.data[idx] =
                  hist.tBase.data.data[idx] + hist.updates * _dTdt * dt

\* a call has returned after the second update since the initialization
C12_Witness ==
    /\ _temperature_type = "LINEAR_GRADIENT" /\ ~temperature.isNone
    /\ pc = "idle" /\ hist.returned /\ hist.lastOp = "simulate"
    /\ hist.upd.ran /\ ~hist.upd.raised /\ hist.updates >= 2
    /\ InteriorCells(temperature.data) # {}

\* the time series file of the run
TheSeries == xdmf[T_xdmf(_save_path)]

\* C13: an update of the tabulated temperature never lowers the bracket
\* index and advances it only when t = dt*counter exceeds the upper bound it
\* found; after a successful update the bracket is a pair of consecutive
\* snapshots of the file (the lower pair of one advance is the old upper
\* pair), t does not exceed the upper time, an advance went no further than
\* t required, and the lower time is less than the upper time.
C13_BracketForwardOnly ==
    (_temperature_type = "XDMF_FILE" /\ hist.upd.ran) =>
        LET u == hist.upd IN
        /\ u.after.index >= u.before.index
        /\ u.after.index > u.before.index => u.t > u.before.bounds[2]
        /\ ~u.raised =>
              /\ u.t <= u.after.bounds[2]
              /\ u.after.bounds[1] < u.after.bounds[2]
              /\ u.after.index > u.before.index => u.t > u.after.bounds[1]
              /\ u.after.bounds = << TheSeries[u.after.index].t,
                                     TheSeries[u.after.index + 1].t >>
              /\ u.after.arrays = << TheSeries[u.after.index].T,
                                     TheSeries[u.after.index + 1].T >>
              /\ u.after.index = u.before.index + 1 =>
                    /\ u.after.bounds[1] = u.before.bounds[2]
                    /\ u.after.arrays[1] = u.before.arrays[2]

\* an update has advanced the bracket and succeeded
C13_Witness ==
    /\ _temperature_type = "XDMF_FILE"
    /\ hist.upd.ran /\ ~hist.upd.raised
    /\ hist.upd.after.index = hist.upd.before.index + 1

\* C14: an update of the tabulated temperature at a time t = dt*counter
\* beyond the last time stamp of the file raises, and the temperature field
\* is the one the update found.
C14_ExhaustedFileRaises ==
    (_temperature_type = "XDMF_FILE" /\ hist.upd.ran
        /\ hist.upd.t > TheSeries[Len(TheSeries)].t) =>
            /\ hist.upd.raised
            /\ pc = "error"
            /\ hist.upd.Tafter = hist.upd.Tbefore
            /\ temperature = hist.upd.Tbefore

\* an update was called beyond the last time stamp, with the file at hand
C14_Witness ==
    /\ _temperature_type = "XDMF_FILE" /\ _temperature_path = T_xdmf(_save_path)
    /\ hist.upd.ran /\ hist.upd.t > TheSeries[Len(TheSeries)].t
    /\ hist.upd.raised /\ pc = "error"
    /\ hist.upd.after.index = Len(TheSeries)

----------------------------------------------------------------------------
(* Claims about the GPU backend *)

\* C16: whenever save_simulation or a plot reads the host fields, the device
\* copy has not been worked on since the fields were last retrieved from (or
\* sent to) the GPU.
C16_NoStaleHostRead ==
    hist.read.op # "none" => ~hist.read.stale

----------------------------------------------------------------------------
(* Claims about what simulate leaves alone *)

\* C17: during and after a simulate call (the engine of the base class does
\* nothing) there are as many fields, of the same names and shapes, as the
\* call found, every cell of a field that is on no edge has the value the
\* call found, and dimensions, dx, dt and user_data are what the call found.
C17_InteriorsUnchanged ==
    (hist.calls >= 1 /\ hist.lastOp = "simulate") =>
        /\ Len(fields) = Len(call.f0)
        /\ \A j \in 1..Len(fields) :
              /\ fields[j].name = call.f0[j].name
              /\ fields[j].data.shape = call.f0[j].data.shape
              /\ \A idx \in InteriorCells(fields[j].data) :
                    fields[j].data.data[idx] = call.f0[j].data.data[idx]
        /\ << dimensions, dx, dt, user_data >> = call.p0

\* a call of two steps on a region of two axes has returned, and the
\* boundary application has changed edge cells
C17_Witness ==
    /\ pc = "idle" /\ hist.returned /\ call.n = 2
    /\ Len(dimensions) = 2
    /\ fields # call.f0
    /\ \A j \in 1..Len(fields) : InteriorCells(fields[j].data) # {}

----------------------------------------------------------------------------
(* Runs that load checkpoints of several file names *)

\* file names of checkpoints whose step number is not the end of the name,
\* and which do not hold "step_"
VersionedName == step_ \o <<"3", "_", "v", "2">>
RunName == <<"r", "u", "n", "_", "0", "0", "0", "7">>

LoadConfigurations == { <<"NONE", BCToken("PERIODIC")>> }

InitLoad == Setup({<< MaxDim >>}, LoadConfigurations, {"CPU_SERIAL"}, {SeriesA},
                  {T_xdmf("data")}, {StepName(12), VersionedName, RunName})

SpecLoad == InitLoad /\ [][Next]_vars

----------------------------------------------------------------------------
(* Claims about load_simulation *)

\* the number formed by the digits a file name ends with: [ok, value]
RECURSIVE TrailingStart(_, _)
TrailingStart(filename, i) ==
    IF i > 0 /\ isdigit(filename[i]) THEN TrailingStart(filename, i - 1) ELSE i

TrailingNumber(filename) ==
    LET i == TrailingStart(filename, Len(filename))
        digits == SubSeq(filename, i + 1, Len(filename))
    IN [ok |-> digits # <<>>, value |-> IntOfDigits(digits)]

\* C18: after load_simulation, (a) called without a step on a file whose name
\* ends with digits, the time-step counter is the number those digits form;
\* (b) called with a step >= 0 on a directory that holds step_<step>, that
\* file and no other was opened, the fields are its contents and the counter
\* is the step; (c) called with a directory and no step, it has raised and
\* opened no file.
C18_LoadSetsCounter ==
    (hist.lastOp = "load" /\ hist.load.called) =>
        /\ (hist.load.step < 0 /\ ~hist.load.dir /\ hist.load.opened # <<>>
              /\ TrailingNumber(hist.load.opened).ok)
             => time_step_counter = TrailingNumber(hist.load.opened).value
        /\ (hist.load.dir /\ hist.load.step >= 0
              /\ StepName(hist.load.step) \in DOMAIN files)
             => /\ hist.load.opened = StepName(hist.load.step)
                /\ fields = LoadedFields(files[StepName(hist.load.step)].dict)
                /\ time_step_counter = hist.load.step
        /\ (hist.load.dir /\ hist.load.step < 0)
             => pc = "error" /\ hist.load.opened = <<>>

====
